---- MODULE Spec2Model ----
(***************************************************************************)
(* Large-document review pipeline of PubCheck: chunk planning and metrics  *)
(* filtering (ai/chunker.py), the chain orchestrator, the issue parser and *)
(* the merger (ai/reviewer.py), the worker process (ai/review_worker.py),  *)
(* and the request handler with its translation of worker lines into       *)
(* outward events (ai/router.py).                                          *)
(***************************************************************************)
EXTENDS Integers, Sequences, FiniteSets, TLC

(***************************************************************************)
(* Program constants                                                       *)
(***************************************************************************)
PAGES_PER_CHUNK == 35
OVERLAP_PAGES == 2
PAGE_THRESHOLD == 40

(***************************************************************************)
(* Bounds of the model                                                     *)
(***************************************************************************)
\* largest page count given to the chunk planner when it is checked alone
MaxPageCount == 110
\* largest chunk width / overlap tried besides the configured (35, 2)
MaxSmallWidth == 3
MaxSmallOverlap == 4
\* largest page count tried with the small widths
MaxSmallPages == 7
\* text fragments streamed by the engine in a single-pass review
MaxFragments == 2
\* segments of a model output given to parse_chunk_issues on its own
MaxSegments == 3
\* leading chunks of a chain run whose output may be malformed
MaxMalformedChunks == 2
\* issues of a list renumbered on its own
MaxIssues == 3
\* pages by which the uploaded document may be shorter than the metrics say
PdfShortfall == 6
\* pages of the metrics given to filter_extraction_for_chunk on its own
MaxMetricPage == 3
\* text blocks of those metrics
MaxTextBlocks == 3
\* chunk outputs merged by build_merged_review run on its own
MaxMergeChunks == 2
\* diagnostics the stderr pipe of the worker holds before a write blocks
ErrPipeCapacity == 2

Min(a, b) == IF a < b THEN a ELSE b
Max(a, b) == IF a > b THEN a ELSE b

(***************************************************************************)
(* ChunkPlanner                                                            *)
(***************************************************************************)
\* the comparison made inclusive: a document of exactly PAGE_THRESHOLD pages
\* is chunked
needs_chunking_Inclusive(page_count) == page_count >= PAGE_THRESHOLD

needs_chunking(page_count) == page_count > PAGE_THRESHOLD

\* One iteration of the while loop of calculate_chunks, entered with
\* start < page_count: the chunk list after the append, the next start, and
\* whether the loop was left (either break).
\* the progress guard left out
LoopGuardStops_Never(next_start, start) == FALSE

LoopGuardStops(next_start, start) == next_start <= start

\* the next chunk starts where the last one ended: no overlap
LoopBody_NoOverlap(page_count, S, O, start, chunks) ==
    LET end == Min(start + S, page_count)
        appended == Append(chunks, <<start, end>>)
    IN  IF end >= page_count
        THEN [chunks |-> appended, start |-> start, stop |-> TRUE]
        ELSE [chunks |-> appended, start |-> end, stop |-> FALSE]

\* the overlap taken one page too wide
LoopBody_WideOverlap(page_count, S, O, start, chunks) ==
    LET end == Min(start + S, page_count)
        appended == Append(chunks, <<start, end>>)
        next_start == end - O - 1
    IN  IF end >= page_count
        THEN [chunks |-> appended, start |-> start, stop |-> TRUE]
        ELSE IF next_start <= start
             THEN [chunks |-> appended, start |-> start, stop |-> TRUE]
             ELSE [chunks |-> appended, start |-> next_start, stop |-> FALSE]

\* the overlap subtracted the wrong way round: the next chunk starts O pages
\* after the end of the last one
LoopBody_OverlapAdded(page_count, S, O, start, chunks) ==
    LET end == Min(start + S, page_count)
        appended == Append(chunks, <<start, end>>)
        next_start == end + O
    IN  IF end >= page_count
        THEN [chunks |-> appended, start |-> start, stop |-> TRUE]
        ELSE IF next_start <= start
             THEN [chunks |-> appended, start |-> start, stop |-> TRUE]
             ELSE [chunks |-> appended, start |-> next_start, stop |-> FALSE]

LoopBody(page_count, S, O, start, chunks) ==
    LET end == Min(start + S, page_count)
        appended == Append(chunks, <<start, end>>)
        next_start == end - O
    IN  IF end >= page_count
        THEN [chunks |-> appended, start |-> start, stop |-> TRUE]
        ELSE IF LoopGuardStops(next_start, start)
             THEN [chunks |-> appended, start |-> start, stop |-> TRUE]
             ELSE [chunks |-> appended, start |-> next_start, stop |-> FALSE]

RECURSIVE ChunkLoop(_, _, _, _, _)
ChunkLoop(page_count, S, O, start, chunks) ==
    IF ~(start < page_count)
    THEN chunks
    ELSE LET r == LoopBody(page_count, S, O, start, chunks)
         IN  IF r.stop THEN r.chunks
             ELSE ChunkLoop(page_count, S, O, r.start, r.chunks)

calculate_chunks(page_count) ==
    IF page_count <= 0 THEN <<>>
    ELSE ChunkLoop(page_count, PAGES_PER_CHUNK, OVERLAP_PAGES, 0, <<>>)

(***************************************************************************)
(* ChunkExtractor: extract_page_range succeeds iff the range, clamped to   *)
(* the pages the document really has, is not empty.                        *)
(***************************************************************************)
ExtractRangeOk(pdf_pages, start, end) ==
    LET s == Max(0, start)
        e == Min(end, pdf_pages)
    IN  ~(s >= e)

(***************************************************************************)
(* filter_extraction_for_chunk.  A record of the metrics carries its        *)
(* 1-indexed page and its other fields (here: its place in the input).      *)
(***************************************************************************)
\* the range read as 0-indexed pages
is_page_in_range_ZeroIndexed(page, page_min, page_max) ==
    page_min - 1 <= page /\ page < page_max

is_page_in_range(page, page_min, page_max) ==
    page_min <= page /\ page <= page_max

\* [r for r in records if is_page_in_range(r.page)]
RECURSIVE KeepInRange(_, _, _)
KeepInRange(records, page_min, page_max) ==
    IF records = <<>> THEN <<>>
    ELSE (IF is_page_in_range(Head(records).page, page_min, page_max)
          THEN <<Head(records)>> ELSE <<>>)
         \o KeepInRange(Tail(records), page_min, page_max)

filter_extraction_for_chunk(extraction, start_page, end_page) ==
    LET page_min == start_page + 1
        page_max == end_page
    IN  [metadata |->
            [filename |-> extraction.metadata.filename,
             page_count |-> end_page - start_page,
             title |-> extraction.metadata.title,
             author |-> extraction.metadata.author,
             creation_date |-> extraction.metadata.creation_date,
             producer |-> extraction.metadata.producer,
             isbn |-> extraction.metadata.isbn,
             doi |-> extraction.metadata.doi,
             job_number |-> extraction.metadata.job_number],
         text_blocks |-> KeepInRange(extraction.text_blocks, page_min, page_max),
         images |-> KeepInRange(extraction.images, page_min, page_max),
         margins |-> KeepInRange(extraction.margins, page_min, page_max),
         fonts |-> extraction.fonts]

(***************************************************************************)
(* Strings.  A string is modelled by what json.loads makes of it:          *)
(* json = "none" (not JSON), "scalar" (a JSON number, string, list or      *)
(* null) or "object" (a JSON object, val its dict).                        *)
(***************************************************************************)
JsonDumps(obj) == [json |-> "object", val |-> obj]

JsonLoads(s) ==
    IF s.json = "none"
    THEN [ok |-> FALSE, isdict |-> FALSE, val |-> <<>>]
    ELSE [ok |-> TRUE, isdict |-> (s.json = "object"), val |-> s.val]

\* text fragments the engine may stream in a single-pass review
Fragments ==
    { [json |-> "none", val |-> "prose"],
      [json |-> "scalar", val |-> "42"],
      [json |-> "object", val |-> [note |-> "x"]] }

(***************************************************************************)
(* Model output of one chunk: a sequence of segments, prose or a fenced    *)
(* block.  The empty sequence is the empty string.                         *)
(***************************************************************************)
Prose == [seg |-> "prose", json |-> "none", issues |-> <<>>]
Block(issues) == [seg |-> "block", json |-> "object", issues |-> issues]
\* a fenced block in braces whose text is not valid JSON
InvalidBlock == [seg |-> "block", json |-> "none", issues |-> <<>>]

RECURSIVE FirstBlock(_)
FirstBlock(content) ==
    IF content = <<>> THEN <<>>
    ELSE IF Head(content).seg = "block" THEN <<Head(content)>>
    ELSE FirstBlock(Tail(content))

\* what json.loads of the text of a block raises
BlockLoadRaises(block) ==
    IF block.json = "object" THEN "none" ELSE "JSONDecodeError"

\* a try statement that catches nothing
ParseCatches_Nothing == {}

\* the exceptions the try statement of parse_chunk_issues catches
ParseCatches == {"JSONDecodeError"}

\* the exception that leaves parse_chunk_issues ("none": it returns)
parse_chunk_issues_raises(content) ==
    LET m == FirstBlock(content)
    IN  IF m = <<>> THEN "none"
        ELSE IF BlockLoadRaises(m[1]) \in ParseCatches THEN "none"
        ELSE BlockLoadRaises(m[1])

parse_chunk_issues(content) ==
    LET m == FirstBlock(content)
    IN  IF m = <<>> THEN <<>>
        ELSE IF m[1].json = "object" THEN m[1].issues
        ELSE <<>>

\* issues the model may report for chunk chunk_idx whose first page is
\* actual_start: one on the chunk's first page (an overlap page for a later
\* chunk), one that also names the page before the chunk
LocalIssue(chunk_idx, actual_start) ==
    [id |-> <<"raw", 1>>, title |-> <<"local", chunk_idx>>,
     pages |-> <<actual_start>>]
CarriedIssue(chunk_idx, actual_start) ==
    [id |-> <<"raw", 2>>, title |-> <<"carried", chunk_idx>>,
     pages |-> <<actual_start + 1, actual_start - 1>>]

\* values of "issues" of the wrong shape: an element that is not an object
\* (also standing for a value that is not a list), and an issue whose pages
\* are not a list of integers
NotAnObject == [malformed |-> "element is not an object"]
BadPagesIssue(chunk_idx) ==
    [id |-> <<"raw", 3>>, title |-> <<"badpages", chunk_idx>>,
     pages |-> <<>>, malformed |-> "pages are not integers"]

\* malformed output: a block that is not valid JSON, and a block of the
\* wrong shape (of the first kind for the first chunk, of the second kind
\* for a later one)
MalformedContents(chunk_idx) ==
    IF chunk_idx < MaxMalformedChunks
    THEN { <<Prose, InvalidBlock>>,
           <<Prose, Block(<<IF chunk_idx = 0 THEN NotAnObject
                            ELSE BadPagesIssue(chunk_idx)>>)>> }
    ELSE {}

Contents(chunk_idx, actual_start) ==
    { <<>>,
      <<Prose>>,
      <<Prose, Block(<<LocalIssue(chunk_idx, actual_start)>>)>>,
      <<Prose, Block(<<CarriedIssue(chunk_idx, actual_start),
                       LocalIssue(chunk_idx, actual_start)>>)>> }
    \cup MalformedContents(chunk_idx)

\* what the awaited engine call of a chunk may produce
EngineOutcomes(chunk_idx, actual_start) ==
    { [kind |-> "ok", content |-> c] : c \in Contents(chunk_idx, actual_start) }
    \cup { [kind |-> k, content |-> <<>>] : k \in {"timeout", "engine", "config"} }

(***************************************************************************)
(* IssueConsolidator                                                       *)
(***************************************************************************)
IssueMalformed(issue) == "malformed" \in DOMAIN issue

\* any(any(p < actual_start for p in issue.get("pages", [])) ...) of the
\* well-shaped issues
HasPriorPages(chunk_issues, actual_start) ==
    \E i \in 1..Len(chunk_issues) :
        /\ ~IssueMalformed(chunk_issues[i])
        /\ \E j \in 1..Len(chunk_issues[i].pages) :
              chunk_issues[i].pages[j] < actual_start

\* the scan raises (AttributeError on issue.get, TypeError on p < actual_start)
\* when it reaches an element of the wrong shape: any() stops at the first
\* issue that lists a prior page
HasPriorPagesRaises(chunk_issues, actual_start) ==
    \E i \in 1..Len(chunk_issues) :
        /\ IssueMalformed(chunk_issues[i])
        /\ ~HasPriorPages(SubSeq(chunk_issues, 1, i - 1), actual_start)

\* the model's list always taken for the full list
Consolidate_AlwaysReplace(chunk_idx, actual_start, accumulated_issues, chunk_issues) ==
    chunk_issues

Consolidate(chunk_idx, actual_start, accumulated_issues, chunk_issues) ==
    IF HasPriorPages(chunk_issues, actual_start) \/ chunk_idx = 0
    THEN chunk_issues
    ELSE accumulated_issues \o chunk_issues

\* enumerate(unique_issues) without its start value
Renumber_FromZero(issues) ==
    [k \in 1..Len(issues) |->
        [issues[k] EXCEPT !.id = <<"issue", k - 1>>]]

Renumber(issues) ==
    [k \in 1..Len(issues) |->
        [issues[k] EXCEPT !.id = <<"issue", k>>]]

(***************************************************************************)
(* Events yielded by review_document_chunked                               *)
(***************************************************************************)
(***************************************************************************)
(* The prompt of a chain iteration and its engine call                     *)
(***************************************************************************)
\* Python's None
PyNone == [py |-> "None"]

\* json.dumps of a list: a JSON text that is not an object
JsonDumpsList(list) == [json |-> "scalar", val |-> list]

\* json.dumps(accumulated_issues, indent=2) if accumulated_issues else None
previous_issues_json(accumulated_issues) ==
    IF accumulated_issues # <<>> THEN JsonDumpsList(accumulated_issues)
    ELSE PyNone

\* an f-string replacement field: a string as it is, None as the text "None"
FormatField(value) ==
    IF "py" \in DOMAIN value THEN [json |-> "none", val |-> "None"]
    ELSE value

\* build_chain_chunk_prompt: the first chunk gets the first-chunk
\* instructions and no previous findings; every other chunk gets the
\* continuation instructions with the argument formatted into the fenced
\* block under "Previous Findings"
build_chain_chunk_prompt(is_first_chunk, previous_json) ==
    IF is_first_chunk
    THEN [instructions |-> "first_chunk", previous_findings |-> <<>>]
    ELSE [instructions |-> "continuation",
          previous_findings |-> <<FormatField(previous_json)>>]

\* a timeout that gives up waiting and leaves the call running
EndCall_TimeoutAbandons(kind, chunk_idx, calls) ==
    IF kind = "timeout" THEN calls ELSE calls \ {chunk_idx}

\* await asyncio.wait_for(_collect_stream(...), timeout=CHUNK_TIMEOUT) is
\* left when the call has returned or raised, or when the timeout has
\* cancelled it and the cancellation has been awaited
EndCall(kind, chunk_idx, calls) == calls \ {chunk_idx}

TimeoutMsg == "Chunk processing timed out after 5 minutes"

ReviewStart(total) == [event |-> "review_start", total_chunks |-> total]

ProgressComplete(chunk_idx, total, actual_start, actual_end) ==
    [event |-> "chunk_progress", chunk |-> chunk_idx + 1, total |-> total,
     pages |-> <<actual_start, actual_end>>, status |-> "complete"]

ProgressError(chunk_idx, total, actual_start, actual_end, msg) ==
    [event |-> "chunk_progress", chunk |-> chunk_idx + 1, total |-> total,
     pages |-> <<actual_start, actual_end>>, status |-> "error",
     error |-> msg]

ErrorEntry(chunk_idx, actual_start, actual_end, msg) ==
    [chunk |-> chunk_idx + 1, pages |-> <<actual_start, actual_end>>,
     error |-> msg]

\* the merged report built whatever the chunks left
AnyContent_Always(all_content) == TRUE

AnyContent(all_content) ==
    \E i \in 1..Len(all_content) : all_content[i] # <<>>

\* Segments of prose a chunk's output may hold besides Prose and the fenced
\* blocks: a line "### <name>", and prose holding the phrase "everything
\* looks good"
Header(name) == [seg |-> "header", name |-> name]
AllGoodProse == [seg |-> "prose", json |-> "none", issues |-> <<>>,
                 phrase |-> "everything looks good"]

SectionNames == <<"Overview", "Needs Attention", "Looking Good", "Suggestions">>

\* the lookahead of a section's pattern: (?=###|\Z) stops the body at the
\* next "###"; the pattern of Suggestions, (?=###|```|\Z), also at a fence
BodyStops(name, segment) ==
    \/ segment.seg = "header"
    \/ name = "Suggestions" /\ segment.seg = "block"

\* the segments from the head of rest up to the first one that stops the body
RECURSIVE BodyUpTo(_, _)
BodyUpTo(name, rest) ==
    IF rest = <<>> THEN <<>>
    ELSE IF BodyStops(name, Head(rest)) THEN <<>>
    ELSE <<Head(rest)>> \o BodyUpTo(name, Tail(rest))

\* re.search of a section's pattern: group(1) of the first match, stripped,
\* in a one-element sequence; <<>> when the header is not in the content
RECURSIVE SectionMatch(_, _)
SectionMatch(name, content) ==
    IF content = <<>> THEN <<>>
    ELSE IF Head(content) = Header(name)
         THEN <<BodyUpTo(name, Tail(content))>>
         ELSE SectionMatch(name, Tail(content))

HasAllGoodPhrase(text) ==
    \E k \in 1..Len(text) : "phrase" \in DOMAIN text[k]

\* what the loop over the chunks appends to the list of a section for chunk
\* chunk_num: nothing for an empty content, a missing header, an empty body,
\* or a Needs Attention body holding the phrase; the Overview body is
\* labelled with the chunk number
Contribution(name, chunk_num, content) ==
    LET m == SectionMatch(name, content)
    IN  IF content = <<>> \/ m = <<>> THEN <<>>
        ELSE IF m[1] = <<>> THEN <<>>
        ELSE IF name = "Needs Attention" /\ HasAllGoodPhrase(m[1]) THEN <<>>
        ELSE IF name = "Overview"
             THEN << <<[seg |-> "label", chunk |-> chunk_num]>> \o m[1] >>
             ELSE <<m[1]>>

\* all_overview, all_needs_attention, all_looking_good, all_suggestions
RECURSIVE Collected(_, _, _)
Collected(name, chunk_contents, i) ==
    IF i > Len(chunk_contents) THEN <<>>
    ELSE Contribution(name, i, chunk_contents[i])
             \o Collected(name, chunk_contents, i + 1)

\* "\n\n".join(texts)
RECURSIVE Joined(_)
Joined(texts) ==
    IF texts = <<>> THEN <<>> ELSE Head(texts) \o Joined(Tail(texts))

DefaultText(name) == [seg |-> "default", name |-> name]

\* the merged report: the four headers, each followed by the bodies
\* collected for it (the overview after the line counting the chunks and the
\* failures, Looking Good cut to three bodies) or by its default text, then
\* the fenced block of the renumbered issues when there is any issue
build_merged_review(chunk_contents, unique_issues, errs, total_chunks) ==
    LET all_overview == Collected("Overview", chunk_contents, 1)
        all_needs_attention == Collected("Needs Attention", chunk_contents, 1)
        all_looking_good == Collected("Looking Good", chunk_contents, 1)
        all_suggestions == Collected("Suggestions", chunk_contents, 1)
        OrDefault(name, texts) ==
            IF texts # <<>> THEN Joined(texts) ELSE <<DefaultText(name)>>
    IN  <<Header("Overview"),
          [seg |-> "summary", total_chunks |-> total_chunks, failed |-> Len(errs)]>>
        \o Joined(all_overview)
        \o <<Header("Needs Attention")>>
        \o OrDefault("Needs Attention", all_needs_attention)
        \o <<Header("Looking Good")>>
        \o OrDefault("Looking Good",
                     SubSeq(all_looking_good, 1, Min(3, Len(all_looking_good))))
        \o <<Header("Suggestions")>>
        \o OrDefault("Suggestions", all_suggestions)
        \o (IF unique_issues # <<>>
            THEN <<Block(Renumber(unique_issues))>>
            ELSE <<>>)

TextEvent(merged) == [event |-> "text", text |-> merged]

\* completed_chunks not reduced by the failures
CompleteEvent_CountsAll(errs, total_chunks) ==
    IF errs # <<>>
    THEN [event |-> "complete", status |-> "partial",
          completed_chunks |-> total_chunks,
          failed_chunks |-> Len(errs), errors |-> errs]
    ELSE [event |-> "complete", status |-> "complete"]

CompleteEvent(errs, total_chunks) ==
    IF errs # <<>>
    THEN [event |-> "complete", status |-> "partial",
          completed_chunks |-> total_chunks - Len(errs),
          failed_chunks |-> Len(errs), errors |-> errs]
    ELSE [event |-> "complete", status |-> "complete"]

(***************************************************************************)
(* The three ways the body of one loop iteration ends: the state it        *)
(* leaves and the event it yields.                                         *)
(***************************************************************************)
HandleSuccess(chunk_idx, total, actual_start, actual_end, acc, errs, content) ==
    [accumulated |-> Consolidate(chunk_idx, actual_start, acc,
                                 parse_chunk_issues(content)),
     errors |-> errs,
     event |-> ProgressComplete(chunk_idx, total, actual_start, actual_end)]

HandleTimeout(chunk_idx, total, actual_start, actual_end, acc, errs) ==
    [accumulated |-> acc,
     errors |-> Append(errs, ErrorEntry(chunk_idx, actual_start, actual_end,
                                        TimeoutMsg)),
     event |-> ProgressError(chunk_idx, total, actual_start, actual_end,
                             TimeoutMsg)]

\* a failed chunk breaking the chain: the findings so far are dropped
HandleException_DropsFindings(chunk_idx, total, actual_start, actual_end, acc, errs, msg) ==
    [accumulated |-> <<>>,
     errors |-> Append(errs, ErrorEntry(chunk_idx, actual_start, actual_end, msg)),
     event |-> ProgressError(chunk_idx, total, actual_start, actual_end, msg)]

HandleException(chunk_idx, total, actual_start, actual_end, acc, errs, msg) ==
    [accumulated |-> acc,
     errors |-> Append(errs, ErrorEntry(chunk_idx, actual_start, actual_end, msg)),
     event |-> ProgressError(chunk_idx, total, actual_start, actual_end, msg)]

\* where the generator is after the iteration of chunk_idx
NextPosition(chunk_idx, total) ==
    IF chunk_idx + 1 < total THEN "prompt" ELSE "merge"

(***************************************************************************)
(* Worker protocol lines and outward events                                *)
(***************************************************************************)
ItemLine(data) == [type |-> "item", data |-> data]
DoneLine == [type |-> "done"]
ErrorLine(msg) == [type |-> "error", message |-> msg]

\* event_data.pop("event", "text") and what is left of event_data
PopEvent(d) == IF "event" \in DOMAIN d THEN d.event ELSE "text"
WithoutEvent(d) == [k \in (DOMAIN d) \ {"event"} |-> d[k]]

OutEvent(type, data) == [event |-> type, data |-> JsonDumps(data)]
WorkerErrorEvent(msg) == OutEvent("error", [error |-> msg, type |-> "unknown"])
CrashEvent(code) ==
    OutEvent("error", [error |-> "Review worker crashed (exit code "
                                     \o ToString(code) \o ")",
                       type |-> "unknown"])
SynthComplete == OutEvent("complete", [status |-> "complete"])

\* the parent's handling of one item line: the event it yields, whether the
\* item was taken for a structured event, and whether handling it raised
TranslateItem(item) ==
    LET d == JsonLoads(item)
    IN  IF ~d.ok
        THEN [raised |-> FALSE, structured |-> FALSE,
              event |-> OutEvent("text", [text |-> item])]
        ELSE IF d.isdict
        THEN [raised |-> FALSE, structured |-> TRUE,
              event |-> OutEvent(PopEvent(d.val), WithoutEvent(d.val))]
        ELSE [raised |-> TRUE, structured |-> FALSE,
              event |-> WorkerErrorEvent("exception")]

(***************************************************************************)
(* State                                                                   *)
(***************************************************************************)
VARIABLES
    pageCount,      \* extraction.metadata.page_count of the request
    pdfPages,       \* pages the uploaded document really has
    wpc,            \* where the worker process is
    chunks,         \* review_document_chunked: chunks
    chunkIdx,       \* chunk_idx of the current loop iteration
    accumulated,    \* accumulated_issues (ConsolidatedState)
    allContent,     \* all_content
    errors,         \* errors
    fragCount,      \* fragments streamed so far in a single-pass review
    outcomes,       \* what each awaited engine call produced, in call order
    emitted,        \* items yielded so far by review_document
    inFlight,       \* chunk indexes whose engine call has started and not ended
    prompt,         \* user_prompt of the current loop iteration
    pipe,           \* lines written to stdout and not yet read by the parent
    errPipe,        \* diagnostics written to stderr and not yet read
    wExited,        \* the worker process has ended
    returncode,     \* its exit status
    ppc,            \* where generate_review_events is
    chunkedMode,    \* chunked_mode
    out,            \* events yielded so far by generate_review_events
    cPages, cS, cO, \* calculate_chunks run on its own: page_count, S, O
    cStart,         \* start
    cChunks,        \* chunks
    cPc,            \* "off", "loop" or "done"
    fIn,            \* arguments of a function run on its own
    fOut,           \* what it returned
    fPc,            \* "off", "call" or "returned"
    rpc,            \* where review_pdf and its response stream are
    tmpFiles        \* temporary input files that exist

workerVars == <<pageCount, pdfPages, wpc, chunks, chunkIdx, accumulated,
                allContent, errors, fragCount, outcomes, emitted>>
callVars == <<inFlight, prompt>>
procVars == <<pipe, wExited, returncode>>
parentVars == <<ppc, chunkedMode, out>>
plannerVars == <<cPages, cS, cO, cStart, cChunks, cPc>>
functionVars == <<fIn, fOut, fPc>>
requestVars == <<rpc, tmpFiles>>
vars == <<workerVars, callVars, procVars, errPipe, parentVars, plannerVars, functionVars,
          requestVars>>

PageCounts == {PAGE_THRESHOLD, PAGE_THRESHOLD + 1, 105}

PlannerOff ==
    /\ cPages = 0 /\ cS = PAGES_PER_CHUNK /\ cO = OVERLAP_PAGES
    /\ cStart = 0 /\ cChunks = <<>> /\ cPc = "off"

FunctionOff == fIn = <<>> /\ fOut = <<>> /\ fPc = "off"

PipelineIdle ==
    /\ wpc = "unspawned"
    /\ chunks = <<>> /\ chunkIdx = 0 /\ accumulated = <<>>
    /\ allContent = <<>> /\ errors = <<>> /\ fragCount = 0
    /\ outcomes = <<>> /\ emitted = <<>>
    /\ inFlight = {} /\ prompt = <<>>
    /\ pipe = <<>> /\ wExited = FALSE /\ returncode = 0
    /\ errPipe = 0
    /\ ppc = "idle" /\ chunkedMode = FALSE /\ out = <<>>
    /\ tmpFiles = {}

\* a review request has arrived
Init ==
    /\ pageCount \in PageCounts
    /\ pdfPages \in {pageCount, pageCount - PdfShortfall}
    /\ PipelineIdle
    /\ rpc = "received"
    /\ PlannerOff
    /\ FunctionOff

(***************************************************************************)
(* Worker process: review_worker.main running review_document              *)
(***************************************************************************)
\* a yield of the generator: _run writes the item line at once
Yield(item) ==
    /\ emitted' = Append(emitted, item)
    /\ pipe' = Append(pipe, ItemLine(item))

\* main leaves with status 0 after the error line
WorkerFails_ExitsZero(msg) ==
    /\ pipe' = Append(pipe, ErrorLine(msg))
    /\ wExited' = TRUE
    /\ returncode' = 0
    /\ wpc' = "failed"

\* an exception leaves _run: main writes an error line and exits 1
WorkerFails(msg) ==
    /\ pipe' = Append(pipe, ErrorLine(msg))
    /\ wExited' = TRUE
    /\ returncode' = 1
    /\ wpc' = "failed"

\* _run reads and validates its inputs (valid = FALSE: reading them, or
\* loading the rules context before the first yield, raises);
\* review_document picks its path
WorkerStart ==
    /\ wpc = "init"
    /\ \E valid \in BOOLEAN :
        IF ~valid
        THEN /\ WorkerFails("ValidationError")
             /\ UNCHANGED <<pageCount, pdfPages, chunks, chunkIdx, accumulated,
                            allContent, errors, fragCount, outcomes, emitted>>
        ELSE IF needs_chunking(pageCount)
        THEN /\ chunks' = calculate_chunks(pageCount)
             /\ Yield(JsonDumps(ReviewStart(Len(chunks'))))
             /\ wpc' = "extract"
             /\ UNCHANGED <<pageCount, pdfPages, chunkIdx, accumulated,
                            allContent, errors, fragCount, outcomes,
                            wExited, returncode>>
        ELSE /\ wpc' = "single"
             /\ UNCHANGED <<pageCount, pdfPages, chunks, chunkIdx, accumulated,
                            allContent, errors, fragCount, outcomes, emitted,
                            procVars>>
    /\ UNCHANGED <<parentVars, plannerVars, callVars, errPipe, functionVars, requestVars>>

\* the pre-extraction loop over all chunks, then the loop's initial state
PreExtract ==
    /\ wpc = "extract"
    /\ IF \A i \in 1..Len(chunks) :
             ExtractRangeOk(pdfPages, chunks[i][1], chunks[i][2])
       THEN /\ wpc' = "prompt"
            /\ chunkIdx' = 0
            /\ accumulated' = <<>>
            /\ allContent' = [i \in 1..Len(chunks) |-> <<>>]
            /\ errors' = <<>>
            /\ UNCHANGED procVars
       ELSE /\ WorkerFails("ValueError")
            /\ UNCHANGED <<chunkIdx, accumulated, allContent, errors>>
    /\ UNCHANGED <<pageCount, pdfPages, chunks, fragCount, outcomes, emitted,
                   parentVars, plannerVars, callVars, errPipe, functionVars, requestVars>>

\* the iteration builds its prompt and starts the engine call
ChunkPrepare ==
    /\ wpc = "prompt"
    /\ prompt' = build_chain_chunk_prompt(chunkIdx = 0,
                                          previous_issues_json(accumulated))
    /\ inFlight' = inFlight \cup {chunkIdx}
    /\ wpc' = "await"
    /\ UNCHANGED <<pageCount, pdfPages, chunks, chunkIdx, accumulated,
                   allContent, errors, fragCount, outcomes, emitted,
                   procVars, parentVars, plannerVars, functionVars, requestVars,
                   errPipe>>

\* the awaited call returns, times out or raises; the iteration yields its
\* chunk_progress event
ChunkStep(o) ==
    /\ wpc = "await"
    /\ LET total == Len(chunks)
           actual_start == chunks[chunkIdx + 1][1] + 1
           actual_end == chunks[chunkIdx + 1][2]
           r == CASE o.kind = "ok" ->
                       IF HasPriorPagesRaises(parse_chunk_issues(o.content),
                                              actual_start)
                       THEN HandleException(chunkIdx, total, actual_start,
                                            actual_end, accumulated, errors,
                                            "TypeError")
                       ELSE HandleSuccess(chunkIdx, total, actual_start,
                                          actual_end, accumulated, errors,
                                          o.content)
                  [] o.kind = "timeout" ->
                       HandleTimeout(chunkIdx, total, actual_start, actual_end,
                                     accumulated, errors)
                  [] OTHER ->
                       HandleException(chunkIdx, total, actual_start, actual_end,
                                       accumulated, errors, o.kind)
       IN  /\ o \in EngineOutcomes(chunkIdx, actual_start)
           /\ outcomes' = Append(outcomes, o.kind)
           /\ inFlight' = EndCall(o.kind, chunkIdx, inFlight)
           /\ allContent' = IF o.kind = "ok"
                            THEN [allContent EXCEPT ![chunkIdx + 1] = o.content]
                            ELSE allContent
           /\ accumulated' = r.accumulated
           /\ errors' = r.errors
           /\ Yield(JsonDumps(r.event))
           /\ wpc' = NextPosition(chunkIdx, total)
           /\ chunkIdx' = IF chunkIdx + 1 < total THEN chunkIdx + 1 ELSE chunkIdx
    /\ UNCHANGED <<pageCount, pdfPages, chunks, fragCount, wExited, returncode,
                   parentVars, prompt, plannerVars, functionVars, requestVars,
                   errPipe>>

\* after the loop: the merged text event, or straight to the complete event
\* when no chunk left any content
Merge ==
    /\ wpc = "merge"
    /\ IF AnyContent(allContent)
       THEN /\ Yield(JsonDumps(TextEvent(
                  build_merged_review(allContent, accumulated, errors, Len(chunks)))))
            /\ accumulated' = Renumber(accumulated)
            /\ wpc' = "complete"
       ELSE /\ Yield(JsonDumps(CompleteEvent(errors, Len(chunks))))
            /\ UNCHANGED accumulated
            /\ wpc' = "gen_done"
    /\ UNCHANGED <<pageCount, pdfPages, chunks, chunkIdx, allContent, errors,
                   fragCount, outcomes, wExited, returncode,
                   parentVars, plannerVars, callVars, errPipe, functionVars, requestVars>>

Complete ==
    /\ wpc = "complete"
    /\ Yield(JsonDumps(CompleteEvent(errors, Len(chunks))))
    /\ wpc' = "gen_done"
    /\ UNCHANGED <<pageCount, pdfPages, chunks, chunkIdx, accumulated,
                   allContent, errors, fragCount, outcomes, wExited, returncode,
                   parentVars, plannerVars, callVars, errPipe, functionVars, requestVars>>

\* single pass: the engine streams a fragment, ends its stream, or raises
SingleFragment(f) ==
    /\ wpc = "single"
    /\ fragCount < MaxFragments
    /\ f \in Fragments
    /\ fragCount' = fragCount + 1
    /\ Yield(f)
    /\ UNCHANGED <<pageCount, pdfPages, wpc, chunks, chunkIdx, accumulated,
                   allContent, errors, outcomes, wExited, returncode,
                   parentVars, plannerVars, callVars, errPipe, functionVars, requestVars>>

SingleEnd ==
    /\ wpc = "single"
    /\ wpc' = "gen_done"
    /\ UNCHANGED <<pageCount, pdfPages, chunks, chunkIdx, accumulated,
                   allContent, errors, fragCount, outcomes, emitted,
                   procVars, parentVars, plannerVars, callVars, errPipe, functionVars, requestVars>>

SingleRaise(kind) ==
    /\ wpc = "single"
    /\ kind \in {"engine", "config"}
    /\ outcomes' = Append(outcomes, kind)
    /\ WorkerFails(kind)
    /\ UNCHANGED <<pageCount, pdfPages, chunks, chunkIdx, accumulated,
                   allContent, errors, fragCount, emitted,
                   parentVars, plannerVars, callVars, errPipe, functionVars, requestVars>>

\* the generator is exhausted: _run writes the done line, the process exits 0
WorkerDone ==
    /\ wpc = "gen_done"
    /\ pipe' = Append(pipe, DoneLine)
    /\ wExited' = TRUE
    /\ returncode' = 0
    /\ wpc' = "exited"
    /\ UNCHANGED <<pageCount, pdfPages, chunks, chunkIdx, accumulated,
                   allContent, errors, fragCount, outcomes, emitted,
                   parentVars, plannerVars, callVars, errPipe, functionVars, requestVars>>

\* the operating system ends the worker (a signal, out of memory)
WorkerCrash ==
    /\ wpc # "unspawned"
    /\ ~wExited
    /\ wExited' = TRUE
    /\ returncode' = -9
    /\ wpc' = "crashed"
    /\ UNCHANGED <<pageCount, pdfPages, chunks, chunkIdx, accumulated,
                   allContent, errors, fragCount, outcomes, emitted, pipe,
                   parentVars, plannerVars, callVars, errPipe, functionVars, requestVars>>

(***************************************************************************)
(* Parent: generate_review_events                                          *)
(***************************************************************************)
\* a finally clause that leaves the worker running
KillIfRunning_Skips == UNCHANGED <<wExited, returncode, wpc>>

\* the finally clause: a worker still running is killed and waited for
KillIfRunning ==
    IF wExited
    THEN UNCHANGED <<wExited, returncode, wpc>>
    ELSE wExited' = TRUE /\ returncode' = -9 /\ wpc' = "killed"

ParentReadLine ==
    /\ ppc = "read"
    /\ pipe # <<>>
    /\ pipe' = Tail(pipe)
    /\ LET msg == Head(pipe)
       IN  CASE msg.type = "item" ->
                  LET t == TranslateItem(msg.data)
                  IN  /\ out' = Append(out, t.event)
                      /\ chunkedMode' = (chunkedMode \/ t.structured)
                      /\ IF t.raised
                         THEN ppc' = "ended" /\ KillIfRunning
                         ELSE UNCHANGED <<ppc, wExited, returncode, wpc>>
             [] msg.type = "error" ->
                  /\ out' = Append(out, WorkerErrorEvent(msg.message))
                  /\ ppc' = "ended"
                  /\ KillIfRunning
                  /\ UNCHANGED chunkedMode
             [] msg.type = "done" ->
                  /\ ppc' = "wait"
                  /\ UNCHANGED <<out, chunkedMode, wExited, returncode, wpc>>
             [] OTHER ->
                  UNCHANGED <<ppc, out, chunkedMode, wExited, returncode, wpc>>
    /\ UNCHANGED <<pageCount, pdfPages, chunks, chunkIdx, accumulated,
                   allContent, errors, fragCount, outcomes, emitted,
                   plannerVars, callVars, errPipe, functionVars, requestVars>>

\* readline returns the empty string: stdout is closed and drained
ParentEOF ==
    /\ ppc = "read"
    /\ pipe = <<>>
    /\ wExited
    /\ ppc' = "wait"
    /\ UNCHANGED <<workerVars, procVars, chunkedMode, out, plannerVars, callVars, errPipe, functionVars, requestVars>>

\* proc.wait returns; the exit status decides the last event
ParentFinish ==
    /\ ppc = "wait"
    /\ wExited
    /\ ppc' = "ended"
    /\ errPipe' = 0
    /\ out' = IF returncode # 0
              THEN Append(out, CrashEvent(returncode))
              ELSE IF ~chunkedMode
              THEN Append(out, SynthComplete)
              ELSE out
    /\ UNCHANGED <<workerVars, procVars, chunkedMode, plannerVars, callVars, functionVars, requestVars>>

(***************************************************************************)
(* Request handler: review_pdf, and the response stream event_stream()      *)
(***************************************************************************)
TempFiles == {"pdf", "extraction"}

\* os.unlink of each of the given paths
Unlink(paths, files) == files \ paths

\* review_pdf up to its return.  "invalid": a validation raises before any
\* temporary file is made; "write_fails": the document file is made and
\* writing it raises, the except clause unlinks it; "ok": both files are
\* written and the response is returned with event_stream() not yet started
ReviewPdf(result) ==
    /\ rpc = "received"
    /\ result \in {"invalid", "write_fails", "ok"}
    /\ CASE result = "invalid" ->
               rpc' = "rejected" /\ UNCHANGED tmpFiles
         [] result = "write_fails" ->
               rpc' = "rejected" /\ tmpFiles' = Unlink({"pdf"}, tmpFiles \cup {"pdf"})
         [] OTHER ->
               rpc' = "response" /\ tmpFiles' = tmpFiles \cup TempFiles
    /\ UNCHANGED <<workerVars, procVars, parentVars, plannerVars, callVars, errPipe, functionVars>>

\* the first event is asked for: event_stream() enters its try statement and
\* generate_review_events spawns the worker (spawned = FALSE: Popen raises,
\* the except clause yields an error event)
StreamStart ==
    /\ rpc = "response"
    /\ rpc' = "streaming"
    /\ \E spawned \in BOOLEAN :
          IF spawned
          THEN wpc' = "init" /\ ppc' = "read" /\ UNCHANGED out
          ELSE /\ out' = Append(out, WorkerErrorEvent("exception"))
               /\ ppc' = "ended"
               /\ UNCHANGED wpc
    /\ UNCHANGED <<pageCount, pdfPages, chunks, chunkIdx, accumulated,
                   allContent, errors, fragCount, outcomes, emitted,
                   procVars, chunkedMode, tmpFiles, plannerVars, callVars, errPipe, functionVars>>

\* generate_review_events is exhausted: the finally clause of event_stream()
\* unlinks both files
StreamClose ==
    /\ rpc = "streaming"
    /\ ppc = "ended"
    /\ rpc' = "closed"
    /\ tmpFiles' = Unlink(TempFiles, tmpFiles)
    /\ UNCHANGED <<workerVars, procVars, parentVars, plannerVars, callVars, errPipe, functionVars>>

\* the consumer goes away.  A started event_stream() is unwound: the finally
\* clause of generate_review_events kills a running worker and waits for it,
\* the finally clause of event_stream() unlinks both files.  A generator that
\* was never started has no finally clause to run.
Disconnect ==
    /\ rpc \in {"response", "streaming"}
    /\ rpc' = "disconnected"
    /\ IF rpc = "streaming"
       THEN /\ KillIfRunning
            /\ tmpFiles' = Unlink(TempFiles, tmpFiles)
            /\ ppc' = IF ppc = "ended" THEN ppc ELSE "cancelled"
       ELSE UNCHANGED <<wExited, returncode, wpc, tmpFiles, ppc>>
    /\ UNCHANGED <<pageCount, pdfPages, chunks, chunkIdx, accumulated,
                   allContent, errors, fragCount, outcomes, emitted, pipe,
                   chunkedMode, out, plannerVars, callVars, errPipe, functionVars>>

\* every outcome of every chunk of every plan
AllOutcomes ==
    UNION { UNION { EngineOutcomes(i - 1, calculate_chunks(pc)[i][1] + 1) :
                        i \in 1..Len(calculate_chunks(pc)) } :
            pc \in PageCounts }

Next ==
    \/ WorkerStart
    \/ PreExtract
    \/ ChunkPrepare
    \/ \E o \in AllOutcomes : ChunkStep(o)
    \/ Merge
    \/ Complete
    \/ \E f \in Fragments : SingleFragment(f)
    \/ SingleEnd
    \/ \E kind \in {"engine", "config"} : SingleRaise(kind)
    \/ WorkerDone
    \/ WorkerCrash
    \/ ParentReadLine
    \/ ParentEOF
    \/ ParentFinish
    \/ \E result \in {"invalid", "write_fails", "ok"} : ReviewPdf(result)
    \/ StreamStart
    \/ StreamClose
    \/ Disconnect

Spec == Init /\ [][Next]_vars

(***************************************************************************)
(* calculate_chunks run on its own, one loop iteration per step, for the   *)
(* configured width and overlap and for small ones (O >= S included)       *)
(***************************************************************************)
PlannerInputs ==
    { <<p, PAGES_PER_CHUNK, OVERLAP_PAGES>> : p \in (-2)..MaxPageCount }
    \cup { <<p, S, O>> : p \in (-1)..MaxSmallPages, S \in 1..MaxSmallWidth,
                         O \in 0..MaxSmallOverlap }

InitPlanner ==
    /\ pageCount = 0 /\ pdfPages = 0
    /\ PipelineIdle
    /\ rpc = "off"
    /\ \E in \in PlannerInputs : cPages = in[1] /\ cS = in[2] /\ cO = in[3]
    /\ cStart = 0 /\ cChunks = <<>> /\ cPc = "entry"
    /\ FunctionOff

\* the early return for page_count <= 0, else chunks = [], start = 0
PlannerEnter ==
    /\ cPc = "entry"
    /\ cPc' = IF cPages <= 0 THEN "done" ELSE "loop"
    /\ cStart' = 0
    /\ cChunks' = <<>>
    /\ UNCHANGED <<cPages, cS, cO, workerVars, callVars, errPipe, procVars, parentVars,
                   functionVars, requestVars>>

\* the while test and one pass through the loop body
PlannerIterate ==
    /\ cPc = "loop"
    /\ IF ~(cStart < cPages)
       THEN cPc' = "done" /\ UNCHANGED <<cStart, cChunks>>
       ELSE LET r == LoopBody(cPages, cS, cO, cStart, cChunks)
            IN  /\ cChunks' = r.chunks
                /\ cStart' = r.start
                /\ cPc' = IF r.stop THEN "done" ELSE "loop"
    /\ UNCHANGED <<cPages, cS, cO, workerVars, callVars, errPipe, procVars, parentVars,
                   functionVars, requestVars>>

NextPlanner == PlannerEnter \/ PlannerIterate

SpecPlanner == InitPlanner /\ [][NextPlanner]_vars

\* a running loop keeps running: the interpreter executes the next iteration
FairSpecPlanner == SpecPlanner /\ WF_vars(NextPlanner)

(***************************************************************************)
(* filter_extraction_for_chunk run on its own                              *)
(***************************************************************************)
\* lists of at most n records, each on one of the pages 1..MaxMetricPage
RecordLists(n) ==
    UNION { { [i \in 1..k |-> [page |-> f[i], ord |-> i]] :
                f \in [1..k -> 1..MaxMetricPage] } : k \in 0..n }

MetadataChoices ==
    { [filename |-> "report.pdf", page_count |-> MaxMetricPage,
       title |-> t, author |-> "UNEP", creation_date |-> "None",
       producer |-> "Adobe PDF Library", isbn |-> "None", doi |-> "None",
       job_number |-> "DEP/2024"] : t \in {"None", "Annual Report"} }

FontsSummary ==
    <<[name |-> "Roboto", count |-> MaxTextBlocks,
       pages |-> [i \in 1..MaxMetricPage |-> i]]>>

FilterInputs ==
    { [extraction |-> [metadata |-> md, text_blocks |-> tb, images |-> im,
                       margins |-> mg, fonts |-> FontsSummary],
       start_page |-> s, end_page |-> e] :
        md \in MetadataChoices,
        tb \in RecordLists(MaxTextBlocks),
        im \in RecordLists(1),
        mg \in { <<>>, [i \in 1..MaxMetricPage |-> [page |-> i, ord |-> i]] },
        s \in 0..MaxMetricPage,
        e \in 0..(MaxMetricPage + 1) }

InitFilter ==
    /\ pageCount = 0 /\ pdfPages = 0
    /\ PipelineIdle
    /\ rpc = "off"
    /\ PlannerOff
    /\ fIn \in { in \in FilterInputs : in.start_page <= in.end_page }
    /\ fOut = <<>>
    /\ fPc = "call"

\* the call builds a new ExtractionResult and assigns nothing of its argument
FilterCall ==
    /\ fPc = "call"
    /\ fOut' = filter_extraction_for_chunk(fIn.extraction, fIn.start_page,
                                            fIn.end_page)
    /\ fPc' = "returned"
    /\ UNCHANGED <<fIn, workerVars, procVars, parentVars, plannerVars, callVars, errPipe, requestVars>>

NextFilter == FilterCall

SpecFilter == InitFilter /\ [][NextFilter]_vars

(***************************************************************************)
(* parse_chunk_issues run on its own, on every output of at most           *)
(* MaxSegments segments                                                    *)
(***************************************************************************)
ParseSegments ==
    { Prose, InvalidBlock,
      Block(<<LocalIssue(0, 1)>>),
      Block(<<CarriedIssue(1, 34), LocalIssue(1, 34)>>) }

ParseInputs ==
    UNION { [1..k -> ParseSegments] : k \in 0..MaxSegments }

InitParse ==
    /\ pageCount = 0 /\ pdfPages = 0
    /\ PipelineIdle
    /\ rpc = "off"
    /\ PlannerOff
    /\ fIn \in ParseInputs
    /\ fOut = <<>>
    /\ fPc = "call"

ParseCall ==
    /\ fPc = "call"
    /\ fOut' = [raised |-> parse_chunk_issues_raises(fIn),
                value |-> IF parse_chunk_issues_raises(fIn) = "none"
                          THEN parse_chunk_issues(fIn) ELSE <<>>]
    /\ fPc' = "returned"
    /\ UNCHANGED <<fIn, workerVars, procVars, parentVars, plannerVars, callVars, errPipe, requestVars>>

NextParse == ParseCall

SpecParse == InitParse /\ [][NextParse]_vars

(***************************************************************************)
(* The renumbering of build_merged_review run on its own, twice over       *)
(***************************************************************************)
\* issues as the model returns them and one that holds a merged id already
RenumberIssues ==
    { LocalIssue(0, 1), CarriedIssue(1, 34),
      [id |-> <<"issue", 2>>, title |-> <<"local", 2>>, pages |-> <<67>>] }

RenumberInputs ==
    UNION { [1..k -> RenumberIssues] : k \in 0..MaxIssues }

InitRenumber ==
    /\ pageCount = 0 /\ pdfPages = 0
    /\ PipelineIdle
    /\ rpc = "off"
    /\ PlannerOff
    /\ fIn \in RenumberInputs
    /\ fOut = fIn
    /\ fPc = "call"

\* the for loop assigns the ids of the list in place
RenumberCall ==
    /\ fPc \in {"call", "returned"}
    /\ fOut' = Renumber(fOut)
    /\ fPc' = IF fPc = "call" THEN "returned" ELSE "again"
    /\ UNCHANGED <<fIn, workerVars, procVars, parentVars, plannerVars, callVars, errPipe, requestVars>>

NextRenumber == RenumberCall

SpecRenumber == InitRenumber /\ [][NextRenumber]_vars

(***************************************************************************)
(* Properties                                                              *)
(***************************************************************************)
Last(seq) == seq[Len(seq)]

\* the generator of a chain run has yielded its last item
ChainFinished == chunks # <<>> /\ wpc \in {"gen_done", "exited"}

\* positions of the items of the given event type yielded by a chain run
EventsAt(type) == { i \in 1..Len(emitted) : emitted[i].val.event = type }

ErrorProgressAt ==
    { i \in EventsAt("chunk_progress") : emitted[i].val.status = "error" }

\* chunk numbers (1-based) reported with status error
FailedChunkNumbers == { emitted[i].val.chunk : i \in ErrorProgressAt }

\* the increasing enumeration of a finite set of numbers
RECURSIVE Ascending(_)
Ascending(S) ==
    IF S = {} THEN <<>>
    ELSE LET m == CHOOSE x \in S : \A y \in S : x <= y
         IN  <<m>> \o Ascending(S \ {m})

Scenario105 ==
    /\ pageCount = 105
    /\ outcomes = <<"ok", "timeout", "ok", "ok">>
    /\ ChainFinished

PartialWithChunk2(ev) ==
    /\ ev.event = "complete"
    /\ ev.status = "partial"
    /\ ev.failed_chunks = 1
    /\ ev.completed_chunks = 3
    /\ Len(ev.errors) = 1
    /\ ev.errors[1].chunk = 2

\* C1: on a 105-page document whose chunk 2 times out and whose
\* chunks 1, 3 and 4 succeed, the stream holds a non-empty merged text event
\* and then ends with complete {partial, failed 1, completed 3, errors = the
\* one entry of chunk 2}.
C1_TextThenPartial ==
    Scenario105 =>
        /\ \E i \in EventsAt("text") :
              emitted[i].val.text # <<>> /\ i < Len(emitted)
        /\ PartialWithChunk2(Last(emitted).val)

Terminal(ev) == ev.event \in {"complete", "error"}

\* C2: every outward stream that has ended holds exactly one terminal event
\* (complete or error), and that event is its last.
C2_OneTerminalEventLast ==
    ppc = "ended" =>
        /\ out # <<>>
        /\ Terminal(Last(out))
        /\ \A i \in 1..(Len(out) - 1) : ~Terminal(out[i])

\* the step in which the awaited call of the current chunk ends with one of
\* the given outcomes
CallEnds(kinds) ==
    /\ wpc = "await"
    /\ Len(outcomes') = Len(outcomes) + 1
    /\ Last(outcomes') \in kinds

\* C3: when the call of chunk i times out or raises an engine error, exactly
\* one error entry for chunk i is recorded, one chunk_progress event for
\* chunk i with status error is emitted, accumulated_issues is left as it
\* was, and the run goes on to chunk i+1, or to the merge after the last.
C3_FailureIsChunkScoped ==
    [][ CallEnds({"timeout", "engine"}) =>
          /\ Len(errors') = Len(errors) + 1
          /\ SubSeq(errors', 1, Len(errors)) = errors
          /\ Last(errors').chunk = chunkIdx + 1
          /\ Len(emitted') = Len(emitted) + 1
          /\ SubSeq(emitted', 1, Len(emitted)) = emitted
          /\ Last(emitted').val.event = "chunk_progress"
          /\ Last(emitted').val.chunk = chunkIdx + 1
          /\ Last(emitted').val.status = "error"
          /\ accumulated' = accumulated
          /\ IF chunkIdx + 1 < Len(chunks)
             THEN wpc' = "prompt" /\ chunkIdx' = chunkIdx + 1
             ELSE wpc' = "merge"
      ]_vars

C3_Witness ==
    /\ wpc = "prompt"
    /\ outcomes # <<>>
    /\ Last(outcomes) \in {"timeout", "engine"}
    /\ accumulated # <<>>
    /\ Last(errors).chunk = chunkIdx

\* what "issues" of the first fenced block of a text holds, << >> without a
\* block that is valid JSON
Parsed(content) ==
    IF \E i \in 1..Len(content) : content[i].seg = "block"
    THEN LET b == content[CHOOSE i \in 1..Len(content) :
                            /\ content[i].seg = "block"
                            /\ \A j \in 1..(i - 1) : content[j].seg # "block"]
         IN  IF b.json = "object" THEN b.issues ELSE <<>>
    ELSE <<>>

\* a list of issues: objects whose pages are integers
IssueList(P) == \A k \in 1..Len(P) : "malformed" \notin DOMAIN P[k]

PageBefore(issues, first_page) ==
    \E i \in 1..Len(issues) : \E j \in 1..Len(issues[i].pages) :
        issues[i].pages[j] < first_page

\* C4: after a successful call of chunk i with parsed list P and prior state
\* A, the new state is P when i is the first chunk or some issue of P lists a
\* page before the chunk's first 1-indexed page, and A followed by P
\* otherwise.
C4_ReplaceOrExtend ==
    [][ (CallEnds({"ok"}) /\ IssueList(Parsed(allContent'[chunkIdx + 1]))) =>
          LET P == Parsed(allContent'[chunkIdx + 1])
              first_page == chunks[chunkIdx + 1][1] + 1
          IN  IF chunkIdx = 0 \/ PageBefore(P, first_page)
              THEN accumulated' = P
              ELSE accumulated' = accumulated \o P
      ]_vars

\* chunk 2 extended the one finding of chunk 1 with its own, which lies on
\* its first page (an overlap page)
C4_Witness ==
    /\ Len(outcomes) = 2
    /\ Len(accumulated) = 2
    /\ accumulated[1].title = <<"local", 0>>
    /\ accumulated[2].title = <<"local", 1>>
    /\ accumulated[2].pages = <<chunks[2][1] + 1>>

\* C5: the complete event of a chain run has status complete iff no chunk
\* failed; otherwise status partial, errors lists the failed chunks in chunk
\* order, failed_chunks is the number of chunk_progress events with status
\* error, and completed_chunks + failed_chunks is the number of chunks.
C5_CompleteEventAccounts ==
    chunks # <<>> =>
        \A i \in EventsAt("complete") :
            LET ev == emitted[i].val
            IN  IF FailedChunkNumbers = {}
                THEN ev.status = "complete"
                ELSE /\ ev.status = "partial"
                     /\ [k \in 1..Len(ev.errors) |-> ev.errors[k].chunk]
                            = Ascending(FailedChunkNumbers)
                     /\ ev.failed_chunks = Cardinality(ErrorProgressAt)
                     /\ ev.completed_chunks + ev.failed_chunks = Len(chunks)

C5_Witness ==
    /\ ChainFinished
    /\ Len(chunks) = 4
    /\ FailedChunkNumbers = {2, 4}
    /\ Last(emitted).val.status = "partial"

C7_NoChunkFailureHalts ==
    (chunks # <<>> /\ wpc \in {"failed", "exited"}) =>
        /\ \A k \in 1..Len(chunks) :
              \E i \in EventsAt("chunk_progress") : emitted[i].val.chunk = k
        /\ Last(emitted).val.event = "complete"

\* C8: a configuration error raised by the call of a chunk is fatal: the
\* run is failed at that chunk, no later chunk is attempted and no complete
\* event is emitted.
C8_ConfigErrorIsFatal ==
    \A k \in 1..Len(outcomes) :
        (chunks # <<>> /\ outcomes[k] = "config") =>
            /\ Len(outcomes) = k
            /\ wpc \in {"failed", "crashed", "killed"}
            /\ EventsAt("complete") = {}

\* the sequence of the specification's algorithm: emit (start, end) with
\* end = min(start + S, page_count); stop when end >= page_count or when
\* end - O <= start; else go on from end - O
RECURSIVE SequenceFrom(_, _, _, _)
SequenceFrom(page_count, S, O, start) ==
    LET end == Min(start + S, page_count)
    IN  <<<<start, end>>>> \o
        (IF end >= page_count \/ end - O <= start
         THEN <<>>
         ELSE SequenceFrom(page_count, S, O, end - O))

SpecifiedSequence(page_count, S, O) ==
    IF page_count <= 0 THEN <<>> ELSE SequenceFrom(page_count, S, O, 0)

\* C9: with S = 35 and O = 2 calculate_chunks returns the sequence of the
\* specification's algorithm: empty for page_count <= 0, the one chunk
\* (0, page_count) for 0 < page_count <= 35, (0,35),(33,68),(66,101),(99,105)
\* for 105 pages, and for every page_count > 0 a sequence that starts at 0
\* and ends at page_count.
C9_ChunksAsSpecified ==
    (cPc = "done" /\ cS = 35 /\ cO = 2) =>
        /\ cChunks = SpecifiedSequence(cPages, 35, 2)
        /\ cPages <= 0 => cChunks = <<>>
        /\ (0 < cPages /\ cPages <= 35) => cChunks = << <<0, cPages>> >>
        /\ cPages = 105 =>
              cChunks = << <<0, 35>>, <<33, 68>>, <<66, 101>>, <<99, 105>> >>
        /\ cPages > 0 =>
              /\ cChunks # <<>>
              /\ cChunks[1][1] = 0
              /\ Last(cChunks)[2] = cPages

C9_Witness ==
    /\ cPc = "done" /\ cS = 35 /\ cO = 2
    /\ cPages = 105
    /\ Len(cChunks) = 4

\* C10: the loop of calculate_chunks terminates for every page_count, S >= 1
\* and O >= 0: with O < S every iteration that goes on strictly increases
\* start, and the loop is left only by a chunk that reaches page_count; with
\* O >= S no second chunk is emitted.
C10_LoopTerminates ==
    /\ <>(cPc = "done")
    /\ [][ (cPc = "loop" /\ cO < cS) =>
              IF cPc' = "loop"
              THEN cStart' > cStart
              ELSE Last(cChunks')[2] = cPages ]_vars
    /\ [](cO >= cS => Len(cChunks) <= 1)

\* the progress guard has stopped the loop short of the end of the document
C10_Witness ==
    /\ cPc = "done"
    /\ cO >= cS
    /\ Len(cChunks) = 1
    /\ cChunks[1][2] < cPages

\* C11: for page_count > 0 and O < S the chunks returned satisfy
\* 0 <= start < end <= page_count; every chunk after the first starts O
\* pages before the end of its predecessor; every chunk but the last has
\* exactly S pages; and the last chunk, and only it, ends at page_count.
C11_ChunkShape ==
    (cPc = "done" /\ cPages > 0 /\ cO < cS) =>
        /\ cChunks # <<>>
        /\ \A i \in 1..Len(cChunks) :
              /\ 0 <= cChunks[i][1]
              /\ cChunks[i][1] < cChunks[i][2]
              /\ cChunks[i][2] <= cPages
              /\ i > 1 => cChunks[i][1] = cChunks[i - 1][2] - cO
              /\ i < Len(cChunks) => cChunks[i][2] - cChunks[i][1] = cS
              /\ (cChunks[i][2] = cPages) <=> (i = Len(cChunks))

\* three chunks of width 3 overlapping by 2 over 5 pages
C11_Witness ==
    /\ cPc = "done"
    /\ cPages = 5 /\ cS = 3 /\ cO = 2
    /\ cChunks = << <<0, 3>>, <<1, 4>>, <<2, 5>> >>

\* the records of a list whose page p has first + 1 <= p <= last, in the
\* order of the list
Retained(records, first, last) ==
    LET K == { i \in 1..Len(records) :
                 first + 1 <= records[i].page /\ records[i].page <= last }
        idx == Ascending(K)
    IN  [j \in 1..Len(idx) |-> records[idx[j]]]

\* C12: filter_extraction_for_chunk(metrics, start, end) retains a text
\* block, image or margin record iff its page p has start + 1 <= p <= end;
\* retained records keep their page and their order; the font summary is
\* passed through; page_count becomes end - start and every other metadata
\* field is unchanged; the input metrics are not modified.
C12_FilterKeepsRange ==
    /\ [](fPc = "returned" =>
            LET in == fIn.extraction
                s == fIn.start_page
                e == fIn.end_page
            IN  /\ fOut.text_blocks = Retained(in.text_blocks, s, e)
                /\ fOut.images = Retained(in.images, s, e)
                /\ fOut.margins = Retained(in.margins, s, e)
                /\ fOut.fonts = in.fonts
                /\ fOut.metadata.page_count = e - s
                /\ \A k \in (DOMAIN in.metadata) \ {"page_count"} :
                      fOut.metadata[k] = in.metadata[k]
                /\ DOMAIN fOut.metadata = DOMAIN in.metadata)
    /\ [][fIn' = fIn]_vars

\* pages 2..3 of three: of the text blocks on pages 3, 1, 2 the first and
\* the third are kept, in that order
C12_Witness ==
    /\ fPc = "returned"
    /\ fIn.start_page = 1 /\ fIn.end_page = 3
    /\ Len(fIn.extraction.text_blocks) = 3
    /\ fIn.extraction.text_blocks[1].page = 3
    /\ fIn.extraction.text_blocks[2].page = 1
    /\ fIn.extraction.text_blocks[3].page = 2
    /\ Len(fOut.text_blocks) = 2
    /\ fOut.text_blocks[1].ord = 1
    /\ fOut.text_blocks[2].ord = 3
    /\ Len(fOut.margins) = 2

\* positions of the fenced blocks of a model output
BlocksAt(content) == { i \in 1..Len(content) : content[i].seg = "block" }

C15_LastBlockWins ==
    (fPc = "returned" /\ Cardinality(BlocksAt(fIn)) > 1
        /\ \A i \in BlocksAt(fIn) : fIn[i].json = "object") =>
        LET last == CHOOSE i \in BlocksAt(fIn) : \A j \in BlocksAt(fIn) : j <= i
        IN  fOut.value = fIn[last].issues

\* a model output whose structured block is missing, is not valid JSON, or
\* holds issues of the wrong shape
MalformedOutput(content) ==
    \/ \A i \in BlocksAt(content) : content[i].json = "none"
    \/ ~IssueList(Parsed(content))

\* C14: a chunk whose engine call succeeds with malformed output is a
\* successful chunk with an empty issue delta: its chunk_progress status is
\* complete, no error is recorded, and for a non-first chunk
\* accumulated_issues is unchanged.
C14_MalformedIsEmptyDelta ==
    [][ (CallEnds({"ok"}) /\ MalformedOutput(allContent'[chunkIdx + 1])) =>
          /\ Last(emitted').val.event = "chunk_progress"
          /\ Last(emitted').val.status = "complete"
          /\ errors' = errors
          /\ chunkIdx > 0 => accumulated' = accumulated
      ]_vars

\* the review request is over: rejected, streamed to its end, or abandoned
\* by its consumer
RequestEnded == rpc \in {"rejected", "closed", "disconnected"}

\* C19: after a review request has ended, both temporary input files are
\* deleted, whatever the outcome, a consumer that disconnects before the
\* first event is consumed included.
C19_TempFilesRemoved ==
    RequestEnded => tmpFiles = {}

\* C20: when the consumer disconnects while the worker is running, the
\* worker is killed and waited for and the temporary files are removed; from
\* then on the parent reads no worker line and emits no event.
C20_DisconnectKillsWorker ==
    /\ [][ (rpc = "streaming" /\ rpc' = "disconnected" /\ ~wExited) =>
              /\ wExited' /\ wpc' = "killed" /\ returncode' # 0
              /\ tmpFiles' = {}
              /\ out' = out /\ pipe' = pipe ]_vars
    /\ [][ rpc = "disconnected" => (out' = out /\ pipe' = pipe) ]_vars

\* the consumer left in the middle of a chain run, with events delivered and
\* worker lines unread
C20_Witness ==
    /\ rpc = "disconnected"
    /\ wpc = "killed"
    /\ ppc = "cancelled"
    /\ out # <<>>
    /\ pipe # <<>>
    /\ chunkIdx > 0
    /\ tmpFiles = {}

\* C16: the renumbering gives the k-th issue of the list the id issue-k and
\* leaves the order and the other fields of the issues as they were;
\* renumbering a renumbered list changes nothing.
C16_RenumberInOrder ==
    /\ [](fPc \in {"returned", "again"} =>
            /\ Len(fOut) = Len(fIn)
            /\ \A k \in 1..Len(fOut) :
                  /\ fOut[k].id = <<"issue", k>>
                  /\ DOMAIN fOut[k] = DOMAIN fIn[k]
                  /\ \A f \in (DOMAIN fIn[k]) \ {"id"} : fOut[k][f] = fIn[k][f])
    /\ [][fPc = "returned" => fOut' = fOut]_vars

\* a list of three whose second issue held the id issue-2 before, renumbered
\* twice
C16_Witness ==
    /\ fPc = "again"
    /\ Len(fIn) = 3
    /\ fIn[1].id = <<"raw", 2>>
    /\ fIn[2].id = <<"issue", 2>>
    /\ fIn[3].id = <<"raw", 1>>
    /\ fOut[3].id = <<"issue", 3>>
    /\ fOut[3].title = <<"local", 0>>

ErrorEventsOut == { i \in 1..Len(out) : out[i].event = "error" }

\* C17: when the worker ends with a non-zero exit status without having
\* written an error line, the outward stream ends with exactly one error
\* event, which reports the worker crash, and no complete event follows it.
C17_CrashReportedLast ==
    (ppc = "ended" /\ wpc = "crashed") =>
        /\ out # <<>>
        /\ Last(out).event = "error"
        /\ Last(out).data.val.error =
              "Review worker crashed (exit code " \o ToString(returncode) \o ")"
        /\ Cardinality(ErrorEventsOut) = 1

\* the parent takes an item line off the pipe
ReadsItem ==
    /\ ppc = "read"
    /\ pipe # <<>>
    /\ Head(pipe).type = "item"
    /\ pipe' = Tail(pipe)

\* C18: for every item line the parent emits exactly one event and keeps
\* reading: for a structured event an event of its type with its remaining
\* fields, for anything else a text event whose text is the data string,
\* whatever the fragment holds.
C18_OneEventPerItem ==
    [][ ReadsItem =>
          LET item == Head(pipe).data
              structured == item.json = "object" /\ "event" \in DOMAIN item.val
          IN  /\ Len(out') = Len(out) + 1
              /\ SubSeq(out', 1, Len(out)) = out
              /\ ppc' = "read"
              /\ IF structured
                 THEN /\ Last(out').event = item.val.event
                      /\ Last(out').data.json = "object"
                      /\ Last(out').data.val =
                            [k \in (DOMAIN item.val) \ {"event"} |-> item.val[k]]
                 ELSE /\ Last(out').event = "text"
                      /\ Last(out').data.json = "object"
                      /\ DOMAIN Last(out').data.val = {"text"}
                      /\ Last(out').data.val.text = item
      ]_vars

(***************************************************************************)
(* C28                                                                     *)
(***************************************************************************)
\* the chunks of a plan that hold page index p
ChunksHolding(plan, p) ==
    { i \in 1..Len(plan) : plan[i][1] <= p /\ p < plan[i][2] }

\* C28: for every page_count > 0, with S = 35 and O = 2, the chunks returned
\* by calculate_chunks cover the document: every page index in
\* [0, page_count) lies in at least one chunk and in at most two.
C28_PlanCoversDocument ==
    (cPc = "done" /\ cPages > 0 /\ cS = PAGES_PER_CHUNK /\ cO = OVERLAP_PAGES) =>
        \A p \in 0..(cPages - 1) :
            /\ ChunksHolding(cChunks, p) # {}
            /\ Cardinality(ChunksHolding(cChunks, p)) <= 2

\* a 105-page plan: pages 33 and 34 lie in two chunks, page 35 in one
C28_Witness ==
    /\ cPc = "done"
    /\ cPages = 105 /\ cS = PAGES_PER_CHUNK /\ cO = OVERLAP_PAGES
    /\ Len(cChunks) = 4
    /\ Cardinality(ChunksHolding(cChunks, 33)) = 2
    /\ Cardinality(ChunksHolding(cChunks, 35)) = 1

(***************************************************************************)
(* C23                                                                     *)
(***************************************************************************)
\* positions of the yielded items that are JSON events of the given type,
\* whichever path yielded them
YieldedEventsAt(type) ==
    { i \in 1..Len(emitted) : /\ emitted[i].json = "object"
                              /\ "event" \in DOMAIN emitted[i].val
                              /\ emitted[i].val.event = type }

\* review_document has chosen its path
ChainPath == wpc \in {"extract", "prompt", "await", "merge", "complete"}
                \/ ChainFinished
SinglePath == wpc = "single" \/ (chunks = <<>> /\ wpc \in {"gen_done", "exited"})

C21_OneCallInFlight ==
    /\ Cardinality(inFlight) <= 1
    /\ wpc = "await" =>
          /\ inFlight = {chunkIdx}
          /\ Len(outcomes) = chunkIdx
          /\ Cardinality(YieldedEventsAt("chunk_progress")) = chunkIdx
          /\ \A i \in 1..chunkIdx :
                emitted[i + 1].val.event = "chunk_progress"
                    /\ emitted[i + 1].val.chunk = i
    /\ wpc \in {"prompt", "merge", "complete", "gen_done", "exited"} =>
          inFlight = {}

\* the third call is in flight after one call that returned and one that
\* timed out
C21_Witness ==
    /\ wpc = "await"
    /\ inFlight = {2}
    /\ outcomes = <<"ok", "timeout">>

(***************************************************************************)
(* Independent-chunk mode: the deduplication of the collected issues,      *)
(* run on its own.  The list it returns is the unique_issues argument of   *)
(* build_merged_review.                                                    *)
(***************************************************************************)
RECURSIVE MinPage(_)
MinPage(pages) ==
    IF Len(pages) = 1 THEN pages[1]
    ELSE Min(pages[1], MinPage(Tail(pages)))

\* a key that leaves the page out
DedupKey_NoPage(issue) == <<issue.title, issue.category>>

DedupKey(issue) == <<issue.title, MinPage(issue.pages), issue.category>>

\* one pass over the collected issues with the set of keys seen so far
RECURSIVE DedupLoop(_, _)
DedupLoop(issues, seen) ==
    IF issues = <<>> THEN <<>>
    ELSE LET key == DedupKey(Head(issues))
         IN  IF key \in seen
             THEN DedupLoop(Tail(issues), seen)
             ELSE <<Head(issues)>> \o DedupLoop(Tail(issues), seen \cup {key})

deduplicate_issues(issues) == DedupLoop(issues, {})

\* issues as the chunks report them: two titles, two categories, page lists
\* with the same and with different minimum pages
DedupShapes ==
    { [title |-> t, pages |-> p, category |-> c] :
        t \in { <<"local", 0>>, <<"local", 1>> },
        p \in { <<3>>, <<5, 3>>, <<5>> },
        c \in { "typography", "layout" } }

\* collected lists; the id of an issue is its place in the list
DedupInputs ==
    { [k \in 1..Len(f) |-> [id |-> <<"raw", k>>, title |-> f[k].title,
                            pages |-> f[k].pages, category |-> f[k].category]] :
        f \in UNION { [1..m -> DedupShapes] : m \in 0..MaxIssues } }

InitDedup ==
    /\ pageCount = 0 /\ pdfPages = 0
    /\ PipelineIdle
    /\ rpc = "off"
    /\ PlannerOff
    /\ fIn \in DedupInputs
    /\ fOut = <<>>
    /\ fPc = "call"

DedupCall ==
    /\ fPc = "call"
    /\ fOut' = deduplicate_issues(fIn)
    /\ fPc' = "returned"
    /\ UNCHANGED <<fIn, workerVars, procVars, parentVars, plannerVars, callVars, errPipe, requestVars>>

NextDedup == DedupCall

SpecDedup == InitDedup /\ [][NextDedup]_vars

(***************************************************************************)
(* C22                                                                     *)
(***************************************************************************)
\* two issues have the same (title, minimum page number, category)
SameKey(a, b) ==
    /\ a.title = b.title
    /\ a.category = b.category
    /\ \E m \in 1..Len(a.pages) :
          /\ \A k \in 1..Len(a.pages) : a.pages[m] <= a.pages[k]
          /\ \A k \in 1..Len(b.pages) : a.pages[m] <= b.pages[k]
          /\ \E k \in 1..Len(b.pages) : a.pages[m] = b.pages[k]

\* positions of the issues that are the first of their key
FirstOfKey(issues) ==
    { i \in 1..Len(issues) : \A j \in 1..(i - 1) : ~SameKey(issues[j], issues[i]) }

\* C22: in independent-chunk mode the collected issues are deduplicated by
\* the key (title, minimum page number, category): for each key only the
\* first issue encountered is kept, the kept issues stay in encounter order,
\* and the list handed to the merger holds no two issues with the same key.
C22_FirstPerKeyKept ==
    fPc = "returned" =>
        /\ \A i, j \in 1..Len(fOut) : i # j => ~SameKey(fOut[i], fOut[j])
        /\ Len(fOut) = Cardinality(FirstOfKey(fIn))
        /\ \A k \in 1..Len(fOut) : fOut[k] = fIn[Ascending(FirstOfKey(fIn))[k]]

\* three issues of one title and category: the second has the minimum page
\* of the first and is dropped, the third has another minimum page and stays
C22_Witness ==
    /\ fPc = "returned"
    /\ Len(fIn) = 3
    /\ fIn[1].pages = <<3>> /\ fIn[2].pages = <<5, 3>> /\ fIn[3].pages = <<5>>
    /\ fIn[1].title = fIn[2].title /\ fIn[2].title = fIn[3].title
    /\ fIn[1].category = fIn[2].category /\ fIn[2].category = fIn[3].category
    /\ fOut = <<fIn[1], fIn[3]>>

(***************************************************************************)
(* C24                                                                     *)
(***************************************************************************)
\* the chunk_progress event of chunk k (1-based) is the item after the
\* review_start event and the k - 1 earlier progress events
ProgressInOrder(k) ==
    /\ emitted[k + 1].val.event = "chunk_progress"
    /\ emitted[k + 1].val.chunk = k
    /\ emitted[k + 1].val.total = Len(chunks)
    /\ emitted[k + 1].val.pages = <<chunks[k][1] + 1, chunks[k][2]>>

\* the generator of a chain run has ended, by returning or by raising
ChainEnded == chunks # <<>> /\ wpc \in {"failed", "gen_done", "exited"}

\* what the claim says of a run that has ended
FixedOrderOfEndedRun ==
    /\ YieldedEventsAt("review_start") = {1}
    /\ emitted[1].val.total_chunks = Len(chunks)
    /\ Len(outcomes) = Len(chunks)
    /\ YieldedEventsAt("chunk_progress") = 2..(Len(chunks) + 1)
    /\ \A k \in 1..Len(chunks) : ProgressInOrder(k)
    /\ YieldedEventsAt("complete") = {Len(emitted)}

\* C24: a chain run emits review_start exactly once and first, with
\* total_chunks the number of planned chunks; then attempts each chunk
\* exactly once in increasing index order, with exactly one chunk_progress
\* event per chunk carrying its 1-based index, the total and the pages
\* "start+1-end"; the complete event comes last.
C24_FixedOrder == ChainEnded => FixedOrderOfEndedRun

(***************************************************************************)
(* C25                                                                     *)
(***************************************************************************)
\* C25: the prompt of every non-first chunk carries the serialized
\* consolidated state as it stands after all earlier chunks, the empty list
\* serialized as an empty list; the first chunk's prompt carries no previous
\* findings.
C25_PromptCarriesState ==
    wpc = "await" =>
        IF chunkIdx = 0
        THEN prompt.previous_findings = <<>>
        ELSE /\ Len(prompt.previous_findings) = 1
             /\ prompt.previous_findings[1].json = "scalar"
             /\ prompt.previous_findings[1].val = accumulated

(***************************************************************************)
(* C26                                                                     *)
(***************************************************************************)
\* the worker writes a line in this step (the parent only takes lines away)
WritesLine == Len(pipe') = Len(pipe) + 1

\* the worker process ends in this step without being killed
EndsUnkilled == ~wExited /\ wExited' /\ wpc' \notin {"crashed", "killed"}

\* C26: the worker's protocol output on a run that is not killed is zero or
\* more item lines followed by exactly one terminal line, done or error,
\* with nothing written after it; done is written only after every item of
\* the review has been written, and an error line is followed by a non-zero
\* exit status.
C26_WorkerProtocol ==
    [][ /\ WritesLine =>
            /\ ~wExited
            /\ Last(pipe').type \in {"item", "done", "error"}
            /\ Last(pipe').type = "item" =>
                  ~wExited' /\ emitted' = Append(emitted, Last(pipe').data)
            /\ Last(pipe').type = "done" =>
                  /\ wpc = "gen_done" /\ emitted' = emitted
                  /\ wExited' /\ returncode' = 0
            /\ Last(pipe').type = "error" =>
                  wExited' /\ returncode' # 0
        /\ EndsUnkilled =>
            WritesLine /\ Last(pipe').type \in {"done", "error"}
        /\ wExited => wExited' /\ returncode' = returncode
      ]_vars

\* a single-pass review that raised after one fragment: an item line, then
\* the error line and exit status 1
C26_Witness ==
    /\ wpc = "failed"
    /\ returncode = 1
    /\ Len(pipe) = 2
    /\ pipe[1].type = "item" /\ pipe[2].type = "error"

(***************************************************************************)
(* AIClient.analyze_page run on its own, one attempt of the retry loop per *)
(* step, against every sequence of answers of the API                      *)
(***************************************************************************)
MAX_RETRIES == 3
RETRY_DELAYS == <<1, 2, 4>>

\* what client.messages.create does on one attempt: it returns a response
\* whose text is a JSON object, bare or inside a code fence, or is not JSON,
\* or it raises
ApiAnswers ==
    { [kind |-> "response",
       text |-> [fenced |-> f, json |-> "object", val |-> [verdict |-> "pass"]]] :
         f \in BOOLEAN }
    \cup { [kind |-> "response",
            text |-> [fenced |-> FALSE, json |-> "none", val |-> "truncated"]] }
    \cup { [kind |-> "RateLimitError"], [kind |-> "APIConnectionError"] }
    \cup { [kind |-> "APIStatusError", status_code |-> c] :
             c \in {400, 499, 500, 503} }

\* the text with a leading ```json or ``` and a trailing ``` cut off
StripFence(text) == [text EXCEPT !.fenced = FALSE]

\* json.loads of a response text: a text still inside its fence is not JSON
LoadsText(text) ==
    IF text.fenced THEN [ok |-> FALSE, isdict |-> FALSE, val |-> <<>>]
    ELSE JsonLoads(text)

\* the test that lets the last attempt sleep and go round once more
RetriesLeft_OneMore(attempt) == attempt < MAX_RETRIES

\* attempt < self.MAX_RETRIES - 1
RetriesLeft(attempt) == attempt < MAX_RETRIES - 1

AIClientErrors == {"AIClientError", "AIConfigurationError"}

\* one pass through the body of the for loop: the call returns, raises, or
\* sleeps and continues
AttemptBody(answer, attempt) ==
    LET retry == [do |-> "continue", sleep |-> RETRY_DELAYS[attempt + 1]]
        raise == [do |-> "raise", exc |-> "AIClientError"]
    IN  CASE answer.kind = "response" ->
               IF LoadsText(StripFence(answer.text)).ok
               THEN [do |-> "return",
                     value |-> LoadsText(StripFence(answer.text)).val]
               ELSE raise
          [] answer.kind \in {"RateLimitError", "APIConnectionError"} ->
               IF RetriesLeft(attempt) THEN retry ELSE raise
          [] OTHER ->
               IF answer.status_code >= 500 /\ RetriesLeft(attempt)
               THEN retry ELSE raise

ClientInputs ==
    { [configured |-> c, answers |-> a] :
        c \in BOOLEAN, a \in [1..(MAX_RETRIES + 1) -> ApiAnswers] }

InitClient ==
    /\ pageCount = 0 /\ pdfPages = 0
    /\ PipelineIdle
    /\ rpc = "off"
    /\ PlannerOff
    /\ fIn \in ClientInputs
    /\ fOut = [attempt |-> 0, tried |-> <<>>, sleeps |-> <<>>, result |-> <<>>]
    /\ fPc = "call"

\* _ensure_client: without credentials the call raises before any attempt
ClientEnter ==
    /\ fPc = "call"
    /\ IF fIn.configured
       THEN fPc' = "attempt" /\ UNCHANGED fOut
       ELSE /\ fPc' = "raised"
            /\ fOut' = [fOut EXCEPT
                          !.result = [do |-> "raise", exc |-> "AIConfigurationError"]]
    /\ UNCHANGED <<fIn, workerVars, procVars, parentVars, plannerVars, callVars, errPipe, requestVars>>

\* for attempt in range(self.MAX_RETRIES), and the raise after the loop
ClientAttempt ==
    /\ fPc = "attempt"
    /\ IF fOut.attempt < MAX_RETRIES
       THEN LET r == AttemptBody(fIn.answers[fOut.attempt + 1], fOut.attempt)
                tried == Append(fOut.tried, fIn.answers[fOut.attempt + 1].kind)
            IN  IF r.do = "continue"
                THEN /\ fOut' = [fOut EXCEPT !.attempt = @ + 1,
                                             !.tried = tried,
                                             !.sleeps = Append(@, r.sleep)]
                     /\ fPc' = "attempt"
                ELSE /\ fOut' = [fOut EXCEPT !.tried = tried, !.result = r]
                     /\ fPc' = IF r.do = "return" THEN "returned" ELSE "raised"
       ELSE /\ fOut' = [fOut EXCEPT !.result = [do |-> "raise", exc |-> "AIClientError"]]
            /\ fPc' = "raised"
    /\ UNCHANGED <<fIn, workerVars, procVars, parentVars, plannerVars, callVars, errPipe, requestVars>>

NextClient == ClientEnter \/ ClientAttempt

SpecClient == InitClient /\ [][NextClient]_vars

(***************************************************************************)
(* C27                                                                     *)
(***************************************************************************)
\* the answer is one the claim calls retryable
Transient(answer) ==
    \/ answer.kind \in {"RateLimitError", "APIConnectionError"}
    \/ answer.kind = "APIStatusError" /\ answer.status_code >= 500

\* the answer is a response whose text parses once a code fence is removed
Parses(answer) == answer.kind = "response" /\ answer.text.json # "none"

\* C27: analyze_page makes at most MAX_RETRIES attempts per call; rate-limit,
\* connection and 5xx errors are retried after the delays 1s then 2s; 4xx
\* errors and unparseable responses are not retried; when the attempts are
\* exhausted or a non-retryable error occurs the call raises AIClientError
\* and returns nothing.
C27_BoundedRetries ==
    LET n == Len(fOut.tried)
    IN  /\ n <= MAX_RETRIES
        /\ Len(fOut.sleeps) <= 2
        /\ \A k \in 1..Len(fOut.sleeps) :
              /\ fOut.sleeps[k] = k
              /\ Transient(fIn.answers[k])
        /\ fPc \in {"returned", "raised"} =>
              /\ fIn.configured => n >= 1 /\ Len(fOut.sleeps) = n - 1
              /\ ~fIn.configured => n = 0
        /\ fPc = "returned" =>
              /\ Parses(fIn.answers[n])
              /\ fOut.result = [do |-> "return", value |-> fIn.answers[n].text.val]
        /\ fPc = "raised" =>
              /\ fOut.result.do = "raise"
              /\ fOut.result.exc \in AIClientErrors
              /\ fIn.configured =>
                    \/ ~Transient(fIn.answers[n]) /\ ~Parses(fIn.answers[n])
                    \/ Transient(fIn.answers[n]) /\ n = MAX_RETRIES

\* two transient failures, slept after for 1s and 2s, then a third: the call
\* raises after three attempts
C27_Witness ==
    /\ fPc = "raised"
    /\ fOut.tried = <<"RateLimitError", "APIStatusError", "APIConnectionError">>
    /\ fOut.sleeps = <<1, 2>>
    /\ fOut.result.exc = "AIClientError"

(***************************************************************************)
(* build_merged_review run on its own over chunk outputs that hold any of  *)
(* the four section headers, and parse_chunk_issues applied to its result  *)
(***************************************************************************)
\* the prose of a chunk's output: no header, all four sections, one section
\* alone, or a Needs Attention section that only says all is well
SectionedProse ==
    { <<Prose>>,
      <<Header("Overview"), Prose, Header("Needs Attention"), Prose,
        Header("Looking Good"), Prose, Header("Suggestions"), Prose>>,
      <<Header("Needs Attention"), AllGoodProse>> }
    \cup { <<Header(SectionNames[n]), Prose>> : n \in 1..Len(SectionNames) }

\* the output of chunk chunk_num: empty, or prose with or without the fenced
\* block of the chunk's issues after it
MergeContents(chunk_num) ==
    { <<>> }
    \cup SectionedProse
    \cup { p \o <<Block(<<LocalIssue(chunk_num - 1, 1)>>)>> : p \in SectionedProse }

\* the arguments of a call: the outputs of the chunks, the consolidated
\* issues (some whenever an output holds a block of issues), the errors
MergeInputs ==
    { in \in
        { [chunk_contents |-> c, unique_issues |-> u, errors |-> e] :
            c \in UNION { { f \in [1..n -> UNION { MergeContents(k) : k \in 1..n }] :
                              \A k \in 1..n : f[k] \in MergeContents(k) } :
                          n \in 1..MaxMergeChunks },
            u \in { <<>>, <<LocalIssue(0, 1)>>,
                    <<CarriedIssue(1, 34), LocalIssue(0, 1)>> },
            e \in { <<>>, <<ErrorEntry(0, 1, 35, TimeoutMsg)>> } } :
        (\E k \in 1..Len(in.chunk_contents) :
             FirstBlock(in.chunk_contents[k]) # <<>>) => in.unique_issues # <<>> }

InitMerge ==
    /\ pageCount = 0 /\ pdfPages = 0
    /\ PipelineIdle
    /\ rpc = "off"
    /\ PlannerOff
    /\ fIn \in MergeInputs
    /\ fOut = [merged |-> <<>>, parsed |-> <<>>]
    /\ fPc = "call"

MergeCall ==
    /\ fPc = "call"
    /\ fOut' = [fOut EXCEPT !.merged =
                   build_merged_review(fIn.chunk_contents, fIn.unique_issues,
                                       fIn.errors, Len(fIn.chunk_contents))]
    /\ fPc' = "merged"
    /\ UNCHANGED <<fIn, workerVars, procVars, parentVars, plannerVars, callVars, errPipe, requestVars>>

\* the merged report is parsed again
ParseMergedCall ==
    /\ fPc = "merged"
    /\ fOut' = [fOut EXCEPT !.parsed = parse_chunk_issues(fOut.merged)]
    /\ fPc' = "returned"
    /\ UNCHANGED <<fIn, workerVars, procVars, parentVars, plannerVars, callVars, errPipe, requestVars>>

NextMerge == MergeCall \/ ParseMergedCall

SpecMerge == InitMerge /\ [][NextMerge]_vars

(***************************************************************************)
(* C29                                                                     *)
(***************************************************************************)
\* C29: whenever the final issue list is non-empty the merged report holds
\* exactly one fenced issues block, placed last, and parse_chunk_issues of
\* the merged report yields the renumbered final issue list; no fenced block
\* of a chunk's raw output is carried into a merged prose section, whichever
\* of the four section headers the chunk's output contains.
C29_MergedRoundTrip ==
    /\ fPc \in {"merged", "returned"} =>
          \A k \in BlocksAt(fOut.merged) :
              k = Len(fOut.merged) /\ fIn.unique_issues # <<>>
    /\ (fPc \in {"merged", "returned"} /\ fIn.unique_issues # <<>>) =>
          BlocksAt(fOut.merged) = {Len(fOut.merged)}
    /\ (fPc = "returned" /\ fIn.unique_issues # <<>>) =>
          /\ Len(fOut.parsed) = Len(fIn.unique_issues)
          /\ \A k \in 1..Len(fOut.parsed) :
                /\ fOut.parsed[k].id = <<"issue", k>>
                /\ fOut.parsed[k].title = fIn.unique_issues[k].title
                /\ fOut.parsed[k].pages = fIn.unique_issues[k].pages

(***************************************************************************)
(* The worker's error stream.  Popen gives the worker a pipe for stderr;   *)
(* generate_review_events reads it once, after the read loop and           *)
(* proc.wait().  The review pipeline with a worker that logs: a write to a *)
(* full pipe blocks the worker until the pipe is read or the worker is     *)
(* killed.                                                                 *)
(***************************************************************************)
WorkerRunning ==
    /\ ~wExited
    /\ wpc \in {"init", "extract", "prompt", "await", "merge", "complete",
                "single", "gen_done"}

\* the worker writes a diagnostic (a log record, a warning, a traceback)
WorkerLog ==
    /\ WorkerRunning
    /\ IF errPipe < ErrPipeCapacity
       THEN errPipe' = errPipe + 1 /\ UNCHANGED wpc
       ELSE wpc' = "blocked" /\ UNCHANGED errPipe
    /\ UNCHANGED <<pageCount, pdfPages, chunks, chunkIdx, accumulated,
                   allContent, errors, fragCount, outcomes, emitted,
                   callVars, procVars, parentVars, plannerVars, functionVars,
                   requestVars>>

\* a request for a single-pass review or for a chain run of two chunks
InitPipes ==
    /\ Init
    /\ pageCount \in {PAGE_THRESHOLD, PAGE_THRESHOLD + 1}
    /\ pdfPages = pageCount

NextPipes == Next \/ WorkerLog

SpecPipes == InitPipes /\ [][NextPipes]_vars

(***************************************************************************)
(* C30                                                                     *)
(***************************************************************************)
\* a step of the worker or of generate_review_events
WorkerOrParentStep ==
    \/ WorkerStart \/ PreExtract \/ ChunkPrepare
    \/ \E o \in AllOutcomes : ChunkStep(o)
    \/ Merge \/ Complete
    \/ \E f \in Fragments : SingleFragment(f)
    \/ SingleEnd
    \/ \E kind \in {"engine", "config"} : SingleRaise(kind)
    \/ WorkerDone \/ WorkerLog
    \/ ParentReadLine \/ ParentEOF \/ ParentFinish

\* C30: the parent and the worker never deadlock on their pipes: however
\* much the worker writes to its error stream while the parent reads
\* protocol lines, the worker is never blocked for good on an error-stream
\* write: there is no state of a streaming review in which the worker is
\* blocked on that write and neither it nor the parent can take a step.
C30_NoPipeDeadlock ==
    ~(/\ rpc = "streaming"
      /\ wpc = "blocked"
      /\ ~wExited
      /\ ~ENABLED WorkerOrParentStep)

====
